---- MODULE Spec2Model ----
(***************************************************************************)
(* Catalog dashboard: the Baserow row-store connector                      *)
(* (connectors/baserow_connector.py), the loader (utils/data_loader.py)    *)
(* and the Streamlit page "Catalog Manager" (pages/1_..._Catalog_Manager)  *)
(* as a state machine.  One action is one user interaction together with   *)
(* the script run that Streamlit performs for it.                          *)
(***************************************************************************)
EXTENDS Integers, Sequences, FiniteSets, TLC

VARIABLES
    \* ---- the row store (remote) and the page's session -------------------
    config,             \* APP_CONFIG: an error entry, and which baserow settings it holds
    store,              \* rows of the all_skus table, as the store returns them
    original_df,        \* st.session_state.original_df
    editor_df,          \* st.session_state.editor_df
    confirming_delete,  \* st.session_state.get('confirming_delete', False)
    sort_cols,          \* the "Sort table by:" multiselect
    edited_df,          \* what st.data_editor returns: display_df plus the user's edits
    calls,              \* requests the last script run made to the connector
    message,            \* what the last script run showed (st.success/error/info, or an exception)
    intent_ids,         \* observation: ids selected when "Delete Selected Rows" was last clicked
    \* ---- a table fetch on its own (SpecFetch) ----------------------------
    responses,          \* the store's answer to page 1, 2, ... of one table
    fetch,              \* outcome of get_table_as_dataframe on `responses`
    \* ---- delete_rows on its own (SpecDelete) -----------------------------
    del_in,             \* [row_ids, fail_at, how]: the id list and the store's behaviour
    del_out,            \* outcome of delete_rows on del_in
    \* ---- update_rows / create_rows on their own (SpecWrite) --------------
    write_in,           \* [op, n, answer]: the call, its item count, the store's answer
    write_out,          \* outcome of the call on write_in
    \* ---- the enrichment scraper on its own (SpecScrape) ------------------
    scr_in,             \* [driver, catalogue, site, answer]: what main() meets
    scr_out             \* what main() did: scrapes, payload, update_rows calls

vars == <<config, store, original_df, editor_df, confirming_delete, sort_cols, edited_df,
          calls, message, intent_ids, responses, fetch, del_in, del_out,
          write_in, write_out, scr_in, scr_out>>

pageVars == <<config, store, original_df, editor_df, confirming_delete, sort_cols, edited_df,
              calls, message, intent_ids>>
fetchVars == <<responses, fetch>>
deleteVars == <<del_in, del_out>>
writeVars == <<write_in, write_out>>
scrapeVars == <<scr_in, scr_out>>

----------------------------------------------------------------------------
(* Bounds of the model *)
MaxPages == 3       \* pages a store answers in SpecFetch
MaxRows == 2        \* rows of the table in Spec
MaxIds == 450       \* length of the id list in SpecDelete

(* Program constants *)
size == 200         \* page size asked of the store
batch_size == 200   \* ids per batch-delete request

----------------------------------------------------------------------------
(* JSON values of a cell, as the store sends them and as a DataFrame holds  *)
(* them.  A cell is a tagged tuple so that values of different Python       *)
(* types can be compared.                                                   *)
NULL == <<"null">>                \* None / NaN
Str(s) == <<"str", s>>            \* a string
Obj(v) == <<"dict", v>>           \* a dict with a 'value' key: {"value": v, ...}
Bare == <<"obj">>                 \* a dict without a 'value' key
Lst(xs) == <<"list", xs>>         \* a list

DataCols == {"Status", "Panel"}   \* the table's user fields

IsDictWithValue(x) == x[1] = "dict"
IsListOfDictWithValue(x) ==
    /\ x[1] = "list"
    /\ x[2] # <<>>
    /\ IsDictWithValue(x[2][1])

----------------------------------------------------------------------------
(* BaserowConnector._get_all_rows.  `resp` is the store: resp[k] is its     *)
(* answer to the request for page k, [status, results, next]; a page the    *)
(* store does not have is an HTTP error.                                    *)
ErrorKinds == {"http_error", "no_response"}

RequestFails(resp, page) == page > Len(resp) \/ resp[page].status # "ok"

(* Variant: the loop ends only on a null `next`.                            *)
LastPageNextOnly(data) == data.next = FALSE

(* Variant: the loop ends only on an empty page.                            *)
LastPageEmptyOnly(data) == data.results = <<>>

(* if data.get("next") is None or not results: break                       *)
LastPage(data) == data.next = FALSE \/ data.results = <<>>

RECURSIVE GetAllRowsFrom(_, _, _, _)
GetAllRowsFrom(resp, page, all_rows, requested) ==
    LET reqs == Append(requested, page) IN
    IF RequestFails(resp, page)
    THEN [raised |-> TRUE, all_rows |-> all_rows, requests |-> reqs]
    ELSE LET results == resp[page].results
             acc == all_rows \o results
         IN  IF LastPage(resp[page])
             THEN [raised |-> FALSE, all_rows |-> acc, requests |-> reqs]
             ELSE GetAllRowsFrom(resp, page + 1, acc, reqs)

get_all_rows(resp) == GetAllRowsFrom(resp, 1, <<>>, <<>>)

(* The clean-up loop of get_table_as_dataframe, one column at a time.       *)
RECURSIVE ListValues(_)
ListValues(xs) ==
    IF xs = <<>> THEN <<>>
    ELSE (IF IsDictWithValue(Head(xs)) THEN <<Head(xs)[2]>> ELSE <<>>)
         \o ListValues(Tail(xs))

FlattenColumn(rows, col) ==
    IF \E i \in 1..Len(rows) : IsDictWithValue(rows[i][col])
    THEN [i \in 1..Len(rows) |->
            [rows[i] EXCEPT ![col] = IF IsDictWithValue(@) THEN @[2] ELSE @]]
    ELSE IF \E i \in 1..Len(rows) : IsListOfDictWithValue(rows[i][col])
    THEN [i \in 1..Len(rows) |->
            [rows[i] EXCEPT ![col] = IF @[1] = "list" THEN Lst(ListValues(@[2])) ELSE @]]
    ELSE rows

Flatten(rows) == FlattenColumn(FlattenColumn(rows, "Status"), "Panel")

(* What get_table_as_dataframe hands to its caller: a DataFrame (the        *)
(* sequence of its rows; the empty DataFrame is <<>>) and the exception it  *)
(* lets through, "none" when it returns.                                    *)
Returns(df) == [exception |-> "none", df |-> df]

(* The except branch of get_table_as_dataframe: log, return pd.DataFrame(). *)
OnFetchError(r) == Returns(<<>>)

(* get_table_as_dataframe on the outcome r of _get_all_rows                 *)
DataFrameOf(r) ==
    IF r.raised THEN OnFetchError(r)
    ELSE IF r.all_rows = <<>> THEN Returns(<<>>)
    ELSE Returns(Flatten(r.all_rows))

get_table_as_dataframe(resp) == DataFrameOf(get_all_rows(resp))

----------------------------------------------------------------------------
(* The except branch of the write calls:                                    *)
(*   logger.error(f"... {e} - Response: {e.response.text}")                 *)
(* evaluates e.response.text before the failure value is returned.  An      *)
(* HTTPError raised by raise_for_status carries the response; a transport   *)
(* failure (ConnectionError, Timeout) has e.response = None, and reading    *)
(* .text of None raises AttributeError out of the handler.                  *)
ExceptHandler(kind, failure_value) ==
    IF kind = "http_error" THEN failure_value ELSE "AttributeError"

Min(a, b) == IF a < b THEN a ELSE b

(* BaserowConnector.delete_rows.  `behaviour[k]` is how the store answers   *)
(* the k-th batch-delete request: "ok" (the batch is deleted) or an error   *)
(* kind (nothing of the batch is deleted).  `i` is the loop variable of     *)
(* range(0, len(valid_row_ids), batch_size).                                *)
RECURSIVE DeleteFrom(_, _, _, _)
DeleteFrom(ids, i, behaviour, sent) ==
    IF i >= Len(ids) THEN [result |-> "True", requests |-> sent, applied |-> sent]
    ELSE LET chunk_of_ids == SubSeq(ids, i + 1, Min(i + batch_size, Len(ids)))
             k == (i \div batch_size) + 1
         IN  IF behaviour[k] = "ok"
             THEN DeleteFrom(ids, i + batch_size, behaviour, Append(sent, chunk_of_ids))
             ELSE [result |-> ExceptHandler(behaviour[k], "False"),
                   requests |-> Append(sent, chunk_of_ids),
                   applied |-> sent]

(* `valid` is FALSE when int(rid) raises for some entry of row_ids.         *)
delete_rows(row_ids, valid, behaviour) ==
    IF row_ids = <<>> THEN [result |-> "True", requests |-> <<>>, applied |-> <<>>]
    ELSE IF ~valid THEN [result |-> "False", requests |-> <<>>, applied |-> <<>>]
    ELSE DeleteFrom(row_ids, 0, behaviour, <<>>)

(* BaserowConnector.update_rows: one PATCH of {"items": rows_data};         *)
(* `answer` is how the store answers it.  The response JSON of a batch      *)
(* update is a non-empty object, written "json".                            *)
update_rows(rows_data, answer) ==
    IF answer = "ok" THEN "json" ELSE ExceptHandler(answer, "None")

(* BaserowConnector.create_rows: one POST of {"items": rows_data}.          *)
create_rows(rows_data, answer) ==
    IF answer = "ok" THEN "json" ELSE ExceptHandler(answer, "None")

Truthy(result) == result \in {"json", "True"}
Raised(result) == result = "AttributeError"

RECURSIVE Flat(_)
Flat(seqs) == IF seqs = <<>> THEN <<>> ELSE Head(seqs) \o Flat(Tail(seqs))

Range(f) == {f[i] : i \in DOMAIN f}

----------------------------------------------------------------------------
(* The row store behind the page: `store` is the table, a sequence of raw   *)
(* rows [id, Status, Panel] in the order the store lists them.              *)
StoreIds(rows) == {rows[i].id : i \in 1..Len(rows)}

NumPages(rows) == IF Len(rows) = 0 THEN 1 ELSE (Len(rows) + size - 1) \div size

(* The store's answers to the paged GET of a table holding `rows`, the      *)
(* request for page fail_page (if any) failing with `kind`.                 *)
StoreResponses(rows, fail_page, kind) ==
    [k \in 1..NumPages(rows) |->
        [status  |-> IF k = fail_page THEN kind ELSE "ok",
         results |-> SubSeq(rows, (k - 1) * size + 1, Min(k * size, Len(rows))),
         next    |-> k < NumPages(rows)]]

(* The store answers a batch request "ok" only if every row id of the batch *)
(* exists; any request can fail.                                            *)
StoreAnswers(rows, ids) ==
    IF ids \subseteq StoreIds(rows) THEN {"ok"} \cup ErrorKinds ELSE ErrorKinds

PatchFor(items, id) == items[CHOOSE j \in 1..Len(items) : items[j].id = id]

(* Status is a single-select field: the store lists its value as an option *)
(* object.  Panel is a text field.                                          *)
StoreValue(col, v) == IF col = "Status" /\ v # NULL THEN Obj(v) ELSE v

(* A successful batch PATCH: each item's fields overwrite those of its row; *)
(* keys that are no field of the table are ignored.                         *)
StoreUpdate(rows, items) ==
    [i \in 1..Len(rows) |->
        IF \E j \in 1..Len(items) : items[j].id = rows[i].id
        THEN LET p == PatchFor(items, rows[i].id) IN
             [c \in DOMAIN rows[i] |->
                 IF c \in DOMAIN p \ {"id"} THEN StoreValue(c, p[c]) ELSE rows[i][c]]
        ELSE rows[i]]

(* A successful batch-delete: the rows of the batch are gone.               *)
RemoveIds(rows, ids) == SelectSeq(rows, LAMBDA r : r.id \notin ids)
StoreDelete(rows, applied) == RemoveIds(rows, Range(Flat(applied)))

----------------------------------------------------------------------------
(* APP_CONFIG, loaded once when utils.config_loader is imported: either an  *)
(* {"error": ...} dictionary or the settings; of the baserow settings the   *)
(* model keeps whether each is there (truthy).                              *)
RequiredFields == {"api_token", "base_url", "all_skus_table_id", "amazon_listings_table_id"}

CompleteConfig == [f \in RequiredFields \cup {"error"} |-> f # "error"]

Configs ==
    {CompleteConfig, [f \in RequiredFields \cup {"error"} |-> f = "error"]}
    \cup {[CompleteConfig EXCEPT ![f] = FALSE] : f \in RequiredFields}

(* Variant: load_data goes to the store whatever the configuration holds.   *)
LoadNeverRefuses(cfg) == FALSE

(* load_data's two checks before it builds a connector: "error" in          *)
(* APP_CONFIG, and not all([api_token, base_url, both table ids]).          *)
LoadRefuses(cfg) == cfg.error \/ \E f \in RequiredFields : ~cfg[f]

(* BaserowConnector(api_token=baserow_config['api_token'],                  *)
(*                  base_url=baserow_config['base_url']) returns a          *)
(* connector; without a token it raises ValueError, without a base_url      *)
(* base_url.rstrip raises.                                                  *)
ConnectorBuilt(cfg) == ~cfg.error /\ cfg.api_token /\ cfg.base_url

----------------------------------------------------------------------------
(* utils/data_loader.py load_data, with a complete configuration and an     *)
(* empty Amazon listings table (the branch that sets df_all_skus['Asin'] =  *)
(* None).                                                                   *)
load_data(resp) ==
    LET df_all_skus == get_table_as_dataframe(resp).df IN
    IF df_all_skus = <<>> THEN <<>>
    ELSE [i \in 1..Len(df_all_skus) |-> df_all_skus[i] @@ ("Asin" :> NULL)]

(* load_data under configuration cfg: the frame it returns and the calls   *)
(* it makes to the connector.                                               *)
LoadFrame(cfg, resp) == IF LoadRefuses(cfg) THEN <<>> ELSE load_data(resp)

(* str(x).strip() == '' *)
IsBlank(x) == x[1] = "str" /\ x[2] \in {"", " "}

(* df['Status'].fillna('Uncategorized'), then blank -> 'Uncategorized'      *)
NormalizeStatus(x) == IF x = NULL \/ IsBlank(x) THEN Str("Uncategorized") ELSE x

(* Variant: the flag column is inserted ticked.                             *)
InsertSelectedTicked(row) == row @@ ("_selected" :> TRUE)

(* df.insert(0, "_selected", False) *)
InsertSelected(row) == row @@ ("_selected" :> FALSE)

(* Variant: the pop sits in the branch that found rows.                     *)
PopsOnlyWithData(df) == df # <<>>

(* Whether initialize_state pops 'confirming_delete' (its last statement).  *)
PopsConfirming(df) == TRUE

(* initialize_state, the branch taken on first load and on force_refresh:   *)
(* the session's two frames and the confirmation flag after it.             *)
initialize_state(df, confirming) ==
    LET prepared == [i \in 1..Len(df) |->
                        InsertSelected([df[i] EXCEPT !.Status = NormalizeStatus(@)])]
    IN  [original_df |-> IF df # <<>> THEN prepared ELSE <<>>,
         editor_df   |-> IF df # <<>> THEN prepared ELSE <<>>,
         confirming_delete |-> IF PopsConfirming(df) THEN FALSE ELSE confirming]

----------------------------------------------------------------------------
(* The editor tab.                                                          *)
StatusOptions == {Str("Active"), Str("Deleted"), Str("Uncategorized")}

(* Sort order of cell values: strings alphabetically, missing values last.  *)
Rank(x) ==
    CASE x = Str("Active") -> 1
      [] x = Str("Amazon") -> 2
      [] x = Str("Deleted") -> 3
      [] x = Str("Uncategorized") -> 4
      [] OTHER -> 5

RECURSIVE KeyLess(_, _, _)
KeyLess(a, b, by) ==
    IF by = <<>> THEN FALSE
    ELSE \/ Rank(a[Head(by)]) < Rank(b[Head(by)])
         \/ Rank(a[Head(by)]) = Rank(b[Head(by)]) /\ KeyLess(a, b, Tail(by))

(* df.sort_values(by).reset_index(drop=True): position of row i afterwards  *)
SortedPos(df, by, i) ==
    1 + Cardinality({j \in 1..Len(df) :
                        \/ KeyLess(df[j], df[i], by)
                        \/ ~KeyLess(df[i], df[j], by) /\ j < i})

sort_values(df, by) ==
    [p \in 1..Len(df) |-> df[CHOOSE i \in 1..Len(df) : SortedPos(df, by, i) = p]]

(* display_df *)
display_df(df, by) == IF by # <<>> THEN sort_values(df, by) ELSE df

(* st.data_editor keeps the user's edits as long as the frame it is given   *)
(* is the one it was given before; a different frame starts a fresh editor. *)
data_editor(old_display, new_display, old_edited) ==
    IF new_display = old_display THEN old_edited ELSE new_display

(* selected_rows = edited_df[edited_df['_selected']];                       *)
(* row_ids_to_modify = selected_rows['id'].tolist()                         *)
row_ids_to_modify(df) ==
    LET selected_rows == SelectSeq(df, LAMBDA r : r["_selected"]) IN
    [i \in 1..Len(selected_rows) |-> selected_rows[i].id]

(* Variant: the save branch is an `if` of its own, not the `elif`.          *)
SaveBranchNoElif(orig, df) == orig # df

(* Which branch of the editor tab the script takes.                         *)
BulkBranch(df) == row_ids_to_modify(df) # <<>>
SaveBranch(orig, df) == ~BulkBranch(df) /\ orig # df

(* updates = [{'id': row_id, col: value} for row_id in row_ids_to_modify]   *)
BulkUpdates(ids, col, value) ==
    [i \in 1..Len(ids) |-> [k \in {"id", col} |-> IF k = "id" THEN ids[i] ELSE value]]

----------------------------------------------------------------------------
(* Save Direct Edits: the diff.                                             *)
(* original_indexed = original_df.set_index('id'),                          *)
(* edited_indexed = edited_df.set_index('id'): the frames' index is the     *)
(* sequence of their ids, their columns are CompareCols.                    *)
CompareCols == {"_selected", "Status", "Panel", "Asin"}

Ids(df) == [i \in 1..Len(df) |-> df[i].id]

(* Variant: compare only asks for frames of the same shape.                 *)
IdenticallyLabeledByLength(orig, edit) == Len(orig) = Len(edit)

(* DataFrame.compare raises ValueError unless both frames carry the same    *)
(* labels in the same order ("Can only compare identically-labeled          *)
(* DataFrame objects").                                                     *)
IdenticallyLabeled(orig, edit) == Ids(orig) = Ids(edit)

(* mask = ~((self == other) | (self.isna() & other.isna()))                 *)
Mask(orig, edit, i, c) == orig[i][c] # edit[i][c]

RowDiffers(orig, edit, i) == \E c \in CompareCols : Mask(orig, edit, i, c)

(* diff's rows: the positions holding a changed cell, in index order        *)
RECURSIVE DiffRowsFrom(_, _, _)
DiffRowsFrom(orig, edit, i) ==
    IF i > Len(orig) THEN <<>>
    ELSE (IF RowDiffers(orig, edit, i) THEN <<i>> ELSE <<>>)
         \o DiffRowsFrom(orig, edit, i + 1)

DiffRows(orig, edit) == DiffRowsFrom(orig, edit, 1)

(* original_indexed.compare(edited_indexed): in the result, 'self' is the   *)
(* frame compare is called on and 'other' is its argument.                  *)
SelfSide(orig_row, edit_row) == orig_row

(* changes.dropna().xs('self', level=1): the changed cells of row i whose   *)
(* 'self' value is not missing.                                             *)
ChangedColumns(orig, edit, i) ==
    {c \in CompareCols :
        /\ Mask(orig, edit, i, c)
        /\ (c = "_selected" \/ SelfSide(orig[i], edit[i])[c] # NULL)}

(* Variant: xs gives an empty selection when no 'self' entry is left.       *)
XsNeverRaises(changed) == FALSE

(* xs('self', level=1) raises KeyError when dropna left no 'self' entry.    *)
XsRaises(changed) == changed = {}

(* update_payload = {'id': int(row_id)}; update_payload.update(...)         *)
UpdatePayload(orig, edit, i) ==
    [k \in {"id"} \cup ChangedColumns(orig, edit, i) |->
        IF k = "id" THEN orig[i].id ELSE SelfSide(orig[i], edit[i])[k]]

(* The outcome of the save computation up to the update_rows call:          *)
(*   "ValueError"  compare raised (st.error, st.stop)                       *)
(*   "empty"       diff.empty (st.info, st.stop)                            *)
(*   "KeyError"    xs('self') found no 'self' entry left in some row        *)
(*   "send"        updates_to_send is built                                 *)
ComputeUpdates(orig, edit) ==
    IF ~IdenticallyLabeled(orig, edit) THEN [outcome |-> "ValueError", updates |-> <<>>]
    ELSE LET rows == DiffRows(orig, edit) IN
         IF rows = <<>> THEN [outcome |-> "empty", updates |-> <<>>]
         ELSE IF \E n \in 1..Len(rows) : XsRaises(ChangedColumns(orig, edit, rows[n]))
         THEN [outcome |-> "KeyError", updates |-> <<>>]
         ELSE [outcome |-> "send",
               updates |-> [n \in 1..Len(rows) |-> UpdatePayload(orig, edit, rows[n])]]

----------------------------------------------------------------------------
(* Calls the page makes to the connector, as logged in `calls`.             *)
FetchCalls == << [op |-> "get_table_as_dataframe", table |-> "all_skus"],
                 [op |-> "get_table_as_dataframe", table |-> "amazon_listings"] >>
UpdateCall(items) == [op |-> "update_rows", items |-> items]
DeleteCall(ids) == [op |-> "delete_rows", ids |-> ids]

LoadCalls(cfg) == IF LoadRefuses(cfg) THEN <<>> ELSE FetchCalls

(* How a fetch of `rows` can go: no failure, or a failure on some page (the *)
(* two kinds of failure take the same path through the fetch; SpecFetch     *)
(* draws both).                                                             *)
FetchOutcomes(rows) ==
    {<<0, "ok">>} \cup {<<k, "http_error">> : k \in 1..NumPages(rows)}

(* initialize_state(force_refresh=True); st.rerun(): the cache is cleared,  *)
(* the table is fetched from `rows` (the store after the write), both       *)
(* frames are recreated and the editor is drawn again.  With an empty frame *)
(* the editor tab shows no widgets, so their state is dropped.              *)
ForceRefresh(rows, how) ==
    LET s == initialize_state(LoadFrame(config, StoreResponses(rows, how[1], how[2])),
                              confirming_delete)
    IN  /\ original_df' = s.original_df
        /\ editor_df' = s.editor_df
        /\ confirming_delete' = s.confirming_delete
        /\ intent_ids' = IF s.confirming_delete THEN intent_ids ELSE <<>>
        /\ sort_cols' = IF s.editor_df = <<>> THEN <<>> ELSE sort_cols
        /\ edited_df' = IF s.editor_df = <<>> THEN <<>>
                        ELSE data_editor(display_df(editor_df, sort_cols),
                                         display_df(s.editor_df, sort_cols),
                                         edited_df)

(* Variant: a run that does not refresh takes the edited table as the new   *)
(* baseline.                                                                *)
NoRefreshAdoptsEdits ==
    /\ original_df' = edited_df
    /\ UNCHANGED <<editor_df, confirming_delete, intent_ids, sort_cols, edited_df>>

(* Variant: a run that does not refresh drops the pending confirmation.     *)
NoRefreshDropsConfirm ==
    /\ confirming_delete' = FALSE
    /\ intent_ids' = <<>>
    /\ UNCHANGED <<original_df, editor_df, sort_cols, edited_df>>

(* A run that ends without initialize_state(force_refresh=True): the        *)
(* session and the widgets stay as they are.                                *)
NoRefresh == UNCHANGED <<original_df, editor_df, confirming_delete, intent_ids,
                         sort_cols, edited_df>>

----------------------------------------------------------------------------
(* The page: state after the first script run of a session.                 *)
RawRow(i, cells) == [id |-> i, Status |-> cells[1], Panel |-> cells[2]]

(* Cells row i of the table can start with: Status a select option, blank   *)
(* or missing; Panel a text or missing.                                     *)
InitCells(i) ==
    { <<Obj(Str("Active")), Str("Amazon")>>,
      IF i % 2 = 1 THEN <<Str(" "), NULL>> ELSE <<NULL, NULL>> }

InitStores ==
    UNION { { [i \in 1..n |-> RawRow(i, f[i])] :
                f \in {g \in [1..n -> UNION {InitCells(j) : j \in 1..n}] :
                          \A j \in 1..n : g[j] \in InitCells(j)} }
            : n \in 0..MaxRows }

IdleFetch == [done |-> FALSE]
IdleDelete == [done |-> FALSE]
IdleWrite == [done |-> FALSE]
IdleScrape == [done |-> FALSE]

Init ==
    /\ config \in Configs
    /\ store \in InitStores
    /\ \E how \in FetchOutcomes(store) :
         LET s == initialize_state(LoadFrame(config, StoreResponses(store, how[1], how[2])),
                                   FALSE)
         IN  /\ original_df = s.original_df
             /\ editor_df = s.editor_df
             /\ edited_df = s.editor_df
    /\ confirming_delete = FALSE
    /\ sort_cols = <<>>
    /\ calls = LoadCalls(config)
    /\ message = IF LoadRefuses(config) THEN "config_error" ELSE ""
    /\ intent_ids = <<>>
    /\ responses = <<>> /\ fetch = IdleFetch
    /\ del_in = <<>> /\ del_out = IdleDelete
    /\ write_in = <<>> /\ write_out = IdleWrite
    /\ scr_in = <<>> /\ scr_out = IdleScrape

(* The result of a script run stays on the page until the next run.  The   *)
(* model lets the user look at it first: every other interaction starts    *)
(* from a page whose last run showed nothing and called nothing.  This      *)
(* orders the interactions and leaves out none of their effects, since      *)
(* each run overwrites `calls` and `message` and reads neither.             *)
Quiet == calls = <<>> /\ message = ""

(* A rerun that changes nothing of the session: typing in the read-only     *)
(* explorer's search box.  What the last run showed is gone.                *)
ViewerSearch ==
    /\ ~Quiet
    /\ calls' = <<>>
    /\ message' = ""
    /\ UNCHANGED <<store, original_df, editor_df, confirming_delete, intent_ids,
                   sort_cols, edited_df>>
    /\ UNCHANGED <<config, fetchVars, deleteVars, writeVars, scrapeVars>>

(* "Discard Changes & Refresh Data" *)
Discard ==
    /\ Quiet
    /\ \E how \in FetchOutcomes(store) : ForceRefresh(store, how)
    /\ calls' = LoadCalls(config)
    /\ message' = IF LoadRefuses(config) THEN "config_error" ELSE "refreshed"
    /\ UNCHANGED store
    /\ UNCHANGED <<config, fetchVars, deleteVars, writeVars, scrapeVars>>

(* The "Sort table by:" multiselect *)
SortChoices == {<<>>, <<"Status">>}

SetSort ==
    /\ Quiet
    /\ editor_df # <<>>
    /\ \E by \in SortChoices \ {sort_cols} :
         /\ sort_cols' = by
         /\ edited_df' = data_editor(display_df(editor_df, sort_cols),
                                     display_df(editor_df, by), edited_df)
    /\ calls' = <<>>
    /\ message' = ""
    /\ UNCHANGED <<store, original_df, editor_df, confirming_delete, intent_ids>>
    /\ UNCHANGED <<config, fetchVars, deleteVars, writeVars, scrapeVars>>

(* Options of the Panel selectbox column: df_for_kpis['Panel'].unique()     *)
PanelOptions(df) == {df[i].Panel : i \in 1..Len(df)} \ {NULL}

EditOptions(df, c) == IF c = "Status" THEN StatusOptions ELSE PanelOptions(df)

(* The user changes one cell of the editor (Asin is disabled, id hidden).   *)
EditCell ==
    /\ Quiet
    /\ \E i \in 1..Len(edited_df), c \in {"Status", "Panel"} :
         \E v \in EditOptions(editor_df, c) \ {edited_df[i][c]} :
            edited_df' = [edited_df EXCEPT ![i][c] = v]
    /\ calls' = <<>>
    /\ message' = ""
    /\ UNCHANGED <<store, original_df, editor_df, confirming_delete, intent_ids, sort_cols>>
    /\ UNCHANGED <<config, fetchVars, deleteVars, writeVars, scrapeVars>>

(* The user ticks or unticks the Select checkbox of one row.                *)
ToggleSelect ==
    /\ Quiet
    /\ \E i \in 1..Len(edited_df) :
         edited_df' = [edited_df EXCEPT ![i]["_selected"] = ~@]
    /\ calls' = <<>>
    /\ message' = ""
    /\ UNCHANGED <<store, original_df, editor_df, confirming_delete, intent_ids, sort_cols>>
    /\ UNCHANGED <<config, fetchVars, deleteVars, writeVars, scrapeVars>>

(* The common tail of the three update_rows callers:                        *)
(*   if connector.update_rows(table_id, updates):                           *)
(*       st.success(...); initialize_state(force_refresh=True); st.rerun()  *)
(*   else: st.error(...)                                                    *)
SendUpdates(updates, ok_message, failed_message) ==
    \E answer \in StoreAnswers(store, {updates[j].id : j \in 1..Len(updates)}) :
        LET result == update_rows(updates, answer) IN
        /\ store' = IF answer = "ok" THEN StoreUpdate(store, updates) ELSE store
        /\ IF Truthy(result)
           THEN /\ \E how \in FetchOutcomes(store') : ForceRefresh(store', how)
                /\ calls' = <<UpdateCall(updates)>> \o LoadCalls(config)
                /\ message' = ok_message
           ELSE /\ NoRefresh
                /\ calls' = <<UpdateCall(updates)>>
                /\ message' = IF Raised(result) THEN result ELSE failed_message

(* "Apply Status Change" *)
ApplyStatusChange ==
    /\ Quiet
    /\ BulkBranch(edited_df)
    /\ ConnectorBuilt(config)
    /\ \E new_status \in StatusOptions :
         SendUpdates(BulkUpdates(row_ids_to_modify(edited_df), "Status", new_status),
                     "status_updated", "status_failed")
    /\ UNCHANGED <<config, fetchVars, deleteVars, writeVars, scrapeVars>>

(* "Apply Panel Change" *)
ApplyPanelChange ==
    /\ Quiet
    /\ BulkBranch(edited_df)
    /\ ConnectorBuilt(config)
    /\ \E new_panel \in PanelOptions(editor_df) :
         SendUpdates(BulkUpdates(row_ids_to_modify(edited_df), "Panel", new_panel),
                     "panel_updated", "panel_failed")
    /\ UNCHANGED <<config, fetchVars, deleteVars, writeVars, scrapeVars>>

(* "Delete Selected Rows": st.session_state.confirming_delete = True        *)
DeleteIntent ==
    /\ Quiet
    /\ BulkBranch(edited_df)
    /\ ConnectorBuilt(config)
    /\ confirming_delete' = TRUE
    /\ intent_ids' = row_ids_to_modify(edited_df)
    /\ calls' = <<>>
    /\ message' = "confirm_prompt"
    /\ UNCHANGED <<store, original_df, editor_df, sort_cols, edited_df>>
    /\ UNCHANGED <<config, fetchVars, deleteVars, writeVars, scrapeVars>>

(* Variant: the confirm buttons are drawn with the other bulk actions.      *)
ConfirmAlwaysShown(df, confirming) == BulkBranch(df)

(* Whether the confirm and cancel buttons are drawn.                        *)
ConfirmShown(df, confirming) == BulkBranch(df) /\ confirming

(* The ids handed to delete_rows on confirmation.                           *)
IdsToDelete(df, captured) == row_ids_to_modify(df)

(* "Yes, I'm sure, delete them" *)
ConfirmDelete ==
    /\ Quiet
    /\ ConfirmShown(edited_df, confirming_delete)
    /\ ConnectorBuilt(config)
    /\ LET ids == IdsToDelete(edited_df, intent_ids) IN
       \E answer \in StoreAnswers(store, Range(ids)) :
          LET r == delete_rows(ids, TRUE, [k \in 1..Len(ids) |-> answer]) IN
          /\ store' = StoreDelete(store, r.applied)
          /\ IF Truthy(r.result)
             THEN /\ \E how \in FetchOutcomes(store') : ForceRefresh(store', how)
                  /\ calls' = <<DeleteCall(ids)>> \o LoadCalls(config)
                  /\ message' = "deleted"
             ELSE /\ NoRefresh
                  /\ calls' = <<DeleteCall(ids)>>
                  /\ message' = IF Raised(r.result) THEN r.result ELSE "delete_failed"
    /\ UNCHANGED <<config, fetchVars, deleteVars, writeVars, scrapeVars>>

(* Variant: Cancel reruns without clearing the flag.                        *)
AfterCancelKept(confirming) == confirming

(* What the Cancel button does to 'confirming_delete'.                      *)
AfterCancel(confirming) == FALSE

(* "Cancel": st.session_state.confirming_delete = False; st.rerun()         *)
CancelDelete ==
    /\ Quiet
    /\ ConfirmShown(edited_df, confirming_delete)
    /\ ConnectorBuilt(config)
    /\ confirming_delete' = AfterCancel(confirming_delete)
    /\ intent_ids' = IF confirming_delete' THEN intent_ids ELSE <<>>
    /\ calls' = <<>>
    /\ message' = "cancelled"
    /\ UNCHANGED <<store, original_df, editor_df, sort_cols, edited_df>>
    /\ UNCHANGED <<config, fetchVars, deleteVars, writeVars, scrapeVars>>

(* The save's own checks between the diff and update_rows:                 *)
(*   if not table_id: st.error("Configuration error: ..."); st.stop()       *)
(* and the connector's constructor.                                         *)
SaveConfigured(cfg) == cfg.all_skus_table_id /\ ConnectorBuilt(cfg)

SaveConfigError(cfg) ==
    IF ~cfg.all_skus_table_id THEN "config_error" ELSE "ConnectorError"

(* "Save Direct Edits" *)
SaveDirectEdits ==
    /\ Quiet
    /\ edited_df # <<>>
    /\ SaveBranch(original_df, edited_df)
    /\ LET c == ComputeUpdates(original_df, edited_df) IN
       IF c.outcome = "send" /\ SaveConfigured(config)
       THEN SendUpdates(c.updates, "saved", "save_failed")
       ELSE /\ NoRefresh
            /\ calls' = <<>>
            /\ message' = IF c.outcome = "send" THEN SaveConfigError(config)
                           ELSE c.outcome
            /\ UNCHANGED store
    /\ UNCHANGED <<config, fetchVars, deleteVars, writeVars, scrapeVars>>

Next ==
    \/ ViewerSearch
    \/ Discard
    \/ SetSort
    \/ EditCell
    \/ ToggleSelect
    \/ ApplyStatusChange
    \/ ApplyPanelChange
    \/ DeleteIntent
    \/ ConfirmDelete
    \/ CancelDelete
    \/ SaveDirectEdits

Spec == Init /\ [][Next]_vars

PageIdle ==
    /\ config = CompleteConfig
    /\ store = <<>> /\ original_df = <<>> /\ editor_df = <<>> /\ edited_df = <<>>
    /\ confirming_delete = FALSE /\ sort_cols = <<>> /\ calls = <<>>
    /\ message = "" /\ intent_ids = <<>>

----------------------------------------------------------------------------
(* A table fetch on its own.  `responses` describes a store: the cells its  *)
(* rows hold (shape) and, for each page it has, how it answers the request  *)
(* (status), how many rows the page holds (n) and whether it names a next   *)
(* page (next).                                                             *)
PageSizes == {0, 47, 200}
Shapes == {"select", "links", "mixed"}

ShapeRow(i, shape) ==
    CASE shape = "select" ->
            [id |-> i,
             Status |-> IF i % 3 = 0 THEN NULL ELSE Obj(Str("Active")),
             Panel |-> Str("Amazon")]
      [] shape = "links" ->
            [id |-> i,
             Status |-> Str("Active"),
             Panel |-> IF i % 2 = 0 THEN Lst(<<>>)
                       ELSE Lst(<<Obj(Str("Amazon")), Bare, Obj(Str("Flipkart"))>>)]
      [] OTHER ->
            [id |-> i,
             Status |-> IF i % 2 = 1 THEN Obj(Str("Active"))
                        ELSE Lst(<<Obj(Str("Active"))>>),
             Panel |-> NULL]

(* The rows of page k: ids run on from page to page.                        *)
PageRows(k, n, shape) == [j \in 1..n |-> ShapeRow((k - 1) * size + j, shape)]

Answers(desc) ==
    [k \in 1..Len(desc.pages) |->
        [status  |-> desc.pages[k].status,
         results |-> PageRows(k, desc.pages[k].n, desc.shape),
         next    |-> desc.pages[k].next]]

PageAnswers == [status : {"ok"} \cup ErrorKinds, n : PageSizes, next : BOOLEAN]

InitFetch ==
    /\ PageIdle
    /\ \E len \in 1..MaxPages, shape \in Shapes :
         \E pages \in [1..len -> PageAnswers] :
            responses = [shape |-> shape, pages |-> pages]
    /\ fetch = IdleFetch
    /\ del_in = <<>> /\ del_out = IdleDelete
    /\ write_in = <<>> /\ write_out = IdleWrite
    /\ scr_in = <<>> /\ scr_out = IdleScrape

(* connector.get_table_as_dataframe(table_id) *)
FetchTable ==
    /\ ~fetch.done
    /\ LET r == get_all_rows(Answers(responses)) IN
       fetch' = [done |-> TRUE, raised |-> r.raised, requests |-> r.requests,
                 all_rows |-> r.all_rows, result |-> DataFrameOf(r)]
    /\ UNCHANGED <<pageVars, responses, deleteVars, writeVars, scrapeVars>>

NextFetch == FetchTable

SpecFetch == InitFetch /\ [][NextFetch]_vars

----------------------------------------------------------------------------
(* delete_rows on its own.  del_in: the list holds n ids (highest first),   *)
(* all integers or not (valid); batch fail_at, if any, fails with `how`.    *)
IdList(n) == [i \in 1..n |-> n + 1 - i]

NumBatches(n) == (n + batch_size - 1) \div batch_size

Behaviour(in) ==
    [k \in 1..NumBatches(in.n) |-> IF k = in.fail_at THEN in.how ELSE "ok"]

InitDelete ==
    /\ PageIdle
    /\ responses = <<>> /\ fetch = IdleFetch
    /\ \E n \in 0..MaxIds, valid \in BOOLEAN :
         \E fail_at \in 0..NumBatches(n), how \in ErrorKinds :
            del_in = [n |-> n, valid |-> valid, fail_at |-> fail_at, how |-> how]
    /\ del_out = IdleDelete
    /\ write_in = <<>> /\ write_out = IdleWrite
    /\ scr_in = <<>> /\ scr_out = IdleScrape

(* connector.delete_rows(table_id, row_ids) *)
DeleteRows ==
    /\ ~del_out.done
    /\ LET r == delete_rows(IdList(del_in.n), del_in.valid, Behaviour(del_in)) IN
       del_out' = [done |-> TRUE, result |-> r.result, requests |-> r.requests,
                   deleted |-> Range(Flat(r.applied))]
    /\ UNCHANGED <<pageVars, fetchVars, del_in, writeVars, scrapeVars>>

NextDelete == DeleteRows

SpecDelete == InitDelete /\ [][NextDelete]_vars

----------------------------------------------------------------------------
(* "Save Direct Edits" on its own: the handler applied to an original       *)
(* frame, as loaded from a store that lists its rows in some order, and an  *)
(* edited frame that differs from it in cells, in row order or in rows.     *)
Reverse(seq) == [i \in 1..Len(seq) |-> seq[Len(seq) + 1 - i]]

(* The store lists rows by their position in the table, which need not be   *)
(* the order of their ids.                                                  *)
SaveStores == {t \in InitStores \cup {Reverse(u) : u \in InitStores} : t # <<>>}

CellValues == [Status : StatusOptions, Panel : {Str("Amazon"), NULL}]

WithCells(df, e) ==
    [i \in 1..Len(df) |-> [df[i] EXCEPT !.Status = e[i].Status, !.Panel = e[i].Panel]]

(* A row the original frame does not hold.                                  *)
NewRow == [id |-> MaxRows + 1, Status |-> Str("Uncategorized"), Panel |-> NULL,
           Asin |-> NULL, _selected |-> FALSE]

RowChanges == {"none", "reordered", "removed", "added", "replaced"}

WithRows(df, how) ==
    CASE how = "reordered" -> Reverse(df)
      [] how = "removed"   -> SubSeq(df, 1, Len(df) - 1)
      [] how = "added"     -> Append(df, NewRow)
      [] how = "replaced"  -> Append(SubSeq(df, 1, Len(df) - 1), NewRow)
      [] OTHER             -> df

EditedTables(df) ==
    {WithRows(WithCells(df, e), how) : e \in [1..Len(df) -> CellValues], how \in RowChanges}

InitSave ==
    /\ config = CompleteConfig
    /\ store \in SaveStores
    /\ LET s == initialize_state(LoadFrame(config, StoreResponses(store, 0, "ok")), FALSE)
       IN  /\ original_df = s.original_df
           /\ editor_df = s.editor_df
           /\ edited_df \in EditedTables(s.editor_df)
    /\ confirming_delete = FALSE
    /\ sort_cols = <<>>
    /\ calls = <<>>
    /\ message = ""
    /\ intent_ids = <<>>
    /\ responses = <<>> /\ fetch = IdleFetch
    /\ del_in = <<>> /\ del_out = IdleDelete
    /\ write_in = <<>> /\ write_out = IdleWrite
    /\ scr_in = <<>> /\ scr_out = IdleScrape

NextSave == SaveDirectEdits

SpecSave == InitSave /\ [][NextSave]_vars

----------------------------------------------------------------------------
(* update_rows and create_rows on their own.  write_in: the call (op), the  *)
(* number of items it is given (n) and how the store answers its single     *)
(* batch request (answer).  A batch request is applied whole or not at all. *)
MaxItems == 20

WriteOps == {"update_rows", "create_rows"}

Items(n) == [i \in 1..n |-> [id |-> i, Status |-> Str("Active")]]

InitWrite ==
    /\ PageIdle
    /\ responses = <<>> /\ fetch = IdleFetch
    /\ del_in = <<>> /\ del_out = IdleDelete
    /\ \E op \in WriteOps, n \in 1..MaxItems, answer \in {"ok"} \cup ErrorKinds :
         write_in = [op |-> op, n |-> n, answer |-> answer]
    /\ write_out = IdleWrite
    /\ scr_in = <<>> /\ scr_out = IdleScrape

(* connector.update_rows(table_id, rows_data) /                            *)
(* connector.create_rows(table_id, rows_data)                              *)
WriteRows ==
    /\ ~write_out.done
    /\ LET rows_data == Items(write_in.n)
           result == IF write_in.op = "update_rows"
                     THEN update_rows(rows_data, write_in.answer)
                     ELSE create_rows(rows_data, write_in.answer)
       IN  write_out' = [done |-> TRUE, result |-> result,
                         applied |-> IF write_in.answer = "ok" THEN Len(rows_data) ELSE 0]
    /\ UNCHANGED <<pageVars, fetchVars, deleteVars, write_in, scrapeVars>>

NextWrite == WriteRows

SpecWrite == InitWrite /\ [][NextWrite]_vars

----------------------------------------------------------------------------
(* scrapers/amazon_enrichment.py main(), with a complete configuration.     *)
(* A scrape of a product page ends in one of three ways: a title was found, *)
(* no title was found (Title is None), or the browser raised.               *)
ScrapeOutcomes == {"title", "no_title", "exception"}

(* The try block appends an item: no exception and product_data.get('Title') *)
GotTitle(outcome) == outcome = "title"

(* asins_to_scrape = catalogue_df[catalogue_df[ASIN column].notna()]        *)
asins_to_scrape(catalogue_df) == SelectSeq(catalogue_df, LAMBDA row : row.asin # NULL)

(* What the passes build: the scrapes made, as <<id, pass>>, the list       *)
(* updates_to_send and the list failed_asins.                               *)
NoPass == [scrapes |-> <<>>, updates_to_send |-> <<>>, failed_asins |-> <<>>]

StatusItem(id, status) == [id |-> id, EnrichmentStatus |-> status]

(* First pass: for i, row in asins_to_scrape.iterrows()                     *)
RECURSIVE FirstPass(_, _, _)
FirstPass(rows, site, acc) ==
    IF rows = <<>> THEN acc
    ELSE LET baserow_id == Head(rows).id
             outcome == site[baserow_id][1]
         IN  FirstPass(Tail(rows), site,
                [scrapes |-> Append(acc.scrapes, <<baserow_id, 1>>),
                 updates_to_send |->
                    IF GotTitle(outcome)
                    THEN Append(acc.updates_to_send, StatusItem(baserow_id, "Success"))
                    ELSE acc.updates_to_send,
                 failed_asins |->
                    IF GotTitle(outcome) THEN acc.failed_asins
                    ELSE Append(acc.failed_asins, baserow_id)])

(* Variant: a second failure is only logged.                                *)
SecondFailureLogged(updates, baserow_id) == updates

(* The except branch of the retry pass:                                     *)
(* updates_to_send.append({'id': ..., 'Enrichment Status': 'Scrape Failed'}) *)
SecondFailure(updates, baserow_id) ==
    Append(updates, StatusItem(baserow_id, "Scrape Failed"))

(* Retry pass: for i, item in enumerate(failed_asins)                       *)
RECURSIVE RetryPass(_, _, _)
RetryPass(failed, site, acc) ==
    IF failed = <<>> THEN acc
    ELSE LET baserow_id == Head(failed)
             outcome == site[baserow_id][2]
         IN  RetryPass(Tail(failed), site,
                [acc EXCEPT
                   !.scrapes = Append(@, <<baserow_id, 2>>),
                   !.updates_to_send =
                      IF GotTitle(outcome)
                      THEN Append(@, StatusItem(baserow_id, "Success (on retry)"))
                      ELSE SecondFailure(@, baserow_id)])

(* final_payload: one payload_item per entry of updates_to_send             *)
final_payload(updates_to_send) ==
    [k \in 1..Len(updates_to_send) |->
        StatusItem(updates_to_send[k].id, updates_to_send[k].EnrichmentStatus)]

(* main(): what it scraped, the payload it built and the update_rows calls  *)
(* it made.                                                                 *)
main(in) ==
    LET idle == [scrapes |-> <<>>, payload |-> <<>>, update_calls |-> <<>>] IN
    IF in.catalogue = <<>> \/ ~in.driver THEN idle
    ELSE LET first == FirstPass(asins_to_scrape(in.catalogue), in.site, NoPass)
             both == IF first.failed_asins # <<>>
                     THEN RetryPass(first.failed_asins, in.site, first)
                     ELSE first
             payload == final_payload(both.updates_to_send)
         IN  [scrapes |-> both.scrapes,
              payload |-> payload,
              update_calls |-> IF both.updates_to_send # <<>>
                               THEN <<[items |-> payload,
                                       result |-> update_rows(payload, in.answer)]>>
                               ELSE <<>>]

(* The catalogue tables and product pages main() can meet.                  *)
MaxListings == 3

CatalogueRow(i, has_asin) ==
    [id |-> i, asin |-> IF has_asin THEN Str("ASIN") ELSE NULL]

Catalogues ==
    UNION { { [i \in 1..n |-> CatalogueRow(i, f[i])] : f \in [1..n -> BOOLEAN] }
            : n \in 0..MaxListings }

(* Pages of rows without ASIN are never asked for.                          *)
Sites(catalogue) ==
    {st \in [1..Len(catalogue) -> ScrapeOutcomes \X ScrapeOutcomes] :
        \A i \in 1..Len(catalogue) :
            catalogue[i].asin = NULL => st[i] = <<"title", "title">>}

InitScrape ==
    /\ PageIdle
    /\ responses = <<>> /\ fetch = IdleFetch
    /\ del_in = <<>> /\ del_out = IdleDelete
    /\ write_in = <<>> /\ write_out = IdleWrite
    /\ \E driver \in BOOLEAN, catalogue \in Catalogues, answer \in {"ok"} \cup ErrorKinds :
         \E site \in Sites(catalogue) :
            scr_in = [driver |-> driver, catalogue |-> catalogue, site |-> site,
                      answer |-> answer]
    /\ scr_out = IdleScrape

(* python scrapers/amazon_enrichment.py *)
RunScraper ==
    /\ ~scr_out.done
    /\ LET r == main(scr_in) IN
       scr_out' = [done |-> TRUE, scrapes |-> r.scrapes, payload |-> r.payload,
                   update_calls |-> r.update_calls]
    /\ UNCHANGED <<pageVars, fetchVars, deleteVars, writeVars, scr_in>>

NextScrape == RunScraper

SpecScrape == InitScrape /\ [][NextScrape]_vars

----------------------------------------------------------------------------
(* Properties.                                                              *)
Calls(cs, op) == SelectSeq(cs, LAMBDA c : c.op = op)
Refreshed(cs) == Calls(cs, "get_table_as_dataframe") # <<>>

(* The step is a click on "Save Direct Edits" that reached update_rows.     *)
SaveSent ==
    /\ Quiet /\ SaveBranch(original_df, edited_df)
    /\ Calls(calls', "update_rows") # <<>>

(* The step is a click on "Save Direct Edits".                              *)
SaveClicked ==
    /\ Quiet /\ edited_df # <<>> /\ SaveBranch(original_df, edited_df)
    /\ message' \in {"saved", "save_failed", "AttributeError", "ValueError",
                     "empty", "KeyError"}

RowWithId(df, id) == df[CHOOSE i \in 1..Len(df) : df[i].id = id]
HasId(df, id) == \E i \in 1..Len(df) : df[i].id = id

(* C1: the patch that save sends for a row carries, for every column the    *)
(* user changed in that row, the edited value.                              *)
C1_PatchCarriesEditedValue ==
    [][SaveSent =>
        \A i \in 1..Len(original_df) : \A c \in DataCols :
            LET id == original_df[i].id IN
            (HasId(edited_df, id) /\ RowWithId(edited_df, id)[c] # original_df[i][c])
            => \E n \in 1..Len(calls'[1].items) :
                  LET p == calls'[1].items[n] IN
                  /\ p.id = id
                  /\ c \in DOMAIN p
                  /\ p[c] = RowWithId(edited_df, id)[c]]_vars

(* The edited table with its rows put back in the original's order.         *)
Realigned(orig, edit) == [i \in 1..Len(orig) |-> RowWithId(edit, orig[i].id)]

(* C2: the patches of a save do not depend on the order of the edited       *)
(* table's rows: they are those of the same table in the original's row     *)
(* order, and re-ordering alone gives no patch and no comparison error.     *)
C2_RowOrderIndependent ==
    [][SaveClicked =>
        LET expected == ComputeUpdates(original_df, Realigned(original_df, edited_df))
            sent == Calls(calls', "update_rows")
        IN  /\ message' # "ValueError"
            /\ expected.outcome = "send" =>
                  /\ sent # <<>>
                  /\ Range(sent[1].items) = Range(expected.updates)
            /\ expected.outcome = "empty" => sent = <<>>]_vars

(* C3: no patch passed to update_rows has the key _selected.                *)
C3_NoSelectedInPatch ==
    \A n \in 1..Len(calls) :
        calls[n].op = "update_rows" =>
            \A k \in 1..Len(calls[n].items) : "_selected" \notin DOMAIN calls[n].items[k]

C3_Witness ==
    /\ message = "saved"
    /\ Calls(calls, "update_rows") # <<>>
    /\ Calls(calls, "update_rows")[1].items # <<>>

DeleteCalled(cs) == Calls(cs, "delete_rows") # <<>>

(* C4: delete_rows is called only by the confirmation given while a         *)
(* confirmation is pending, and a confirmation becomes pending only by a    *)
(* delete-intent made with a non-empty selection.                           *)
C4_GuardedDeletion ==
    /\ [][DeleteCalled(calls') /\ calls' # calls =>
            /\ confirming_delete
            /\ BulkBranch(edited_df)
            /\ message' \in {"deleted", "delete_failed", "AttributeError"}]_vars
    /\ [][~confirming_delete /\ confirming_delete' =>
            /\ message' = "confirm_prompt"
            /\ BulkBranch(edited_df)
            /\ calls' = <<>>]_vars
    /\ [](confirming_delete => intent_ids # <<>>)

C4_Witness == message = "deleted" /\ DeleteCalled(calls)

(* C5: the confirmation issues one delete_rows call, for the ids that were  *)
(* selected when the delete-intent was made.                                *)
C5_DeletesIdsOfIntent ==
    [][DeleteCalled(calls') /\ calls' # calls =>
            /\ Len(Calls(calls', "delete_rows")) = 1
            /\ Calls(calls', "delete_rows")[1].ids = intent_ids]_vars

(* C6: delete-intent and cancel call nothing and change neither the store   *)
(* nor a frame; after cancel no confirmation is pending.                    *)
C6_CancelIsFree ==
    /\ [][message' = "cancelled" =>
            /\ confirming_delete /\ ~confirming_delete'
            /\ calls' = <<>>
            /\ UNCHANGED <<store, original_df, editor_df, edited_df>>]_vars
    /\ [][message' = "confirm_prompt" =>
            /\ calls' = <<>>
            /\ UNCHANGED <<store, original_df, editor_df, edited_df>>]_vars

C6_Witness == message = "cancelled" /\ ~confirming_delete /\ BulkBranch(edited_df)

(* C7: after any forced refresh no confirmation is pending, whether the     *)
(* fetch returned rows or nothing, and delete_rows is not called again      *)
(* before a new delete-intent.                                              *)
C7_RefreshResetsConfirmation ==
    /\ [](Refreshed(calls) => ~confirming_delete /\ intent_ids = <<>>)
    /\ [][DeleteCalled(calls') /\ calls' # calls =>
            confirming_delete /\ intent_ids # <<>>]_vars

C7_Witness ==
    /\ message = "deleted" /\ Refreshed(calls)
    /\ editor_df # <<>> /\ ~confirming_delete

(* The step is a click on "Apply Status Change" or "Apply Panel Change".    *)
BulkApplyClicked ==
    /\ Quiet /\ BulkBranch(edited_df)
    /\ Calls(calls', "update_rows") # <<>>

(* C12: a bulk status or panel change makes one update_rows call whose      *)
(* items are one patch {id, column: value} per selected id, in selection    *)
(* order, and the call is followed by a forced refresh.                     *)
C12_BulkUpdateThenRefresh ==
    [][BulkApplyClicked =>
        LET sent == Calls(calls', "update_rows")
            ids == row_ids_to_modify(edited_df)
        IN  /\ Len(sent) = 1
            /\ ids # <<>>
            /\ \E col \in DataCols :
                  \E v \in StatusOptions \cup PanelOptions(editor_df) :
                     sent[1].items = BulkUpdates(ids, col, v)
            /\ Refreshed(calls')]_vars

WriteCalled(cs) == \E n \in 1..Len(cs) : cs[n].op \in {"update_rows", "delete_rows"}

(* C13: every script run that writes to the row store (save, bulk update,   *)
(* deletion), whatever the outcome of the write, goes on to a forced        *)
(* refresh, so that both frames are fetched anew before the next save.      *)
C13_RefreshAfterEveryWrite ==
    [][WriteCalled(calls') /\ calls' # calls =>
        /\ Refreshed(calls')
        /\ original_df' = editor_df']_vars

(* Every row of the original is in the edited table with the same cells.    *)
SameById(orig, edit) ==
    /\ Len(orig) = Len(edit)
    /\ \A i \in 1..Len(orig) :
          HasId(edit, orig[i].id) /\ RowWithId(edit, orig[i].id) = orig[i]

(* C15: a save of an edited table that holds, row by row, the values of the *)
(* original reports "no changes" and makes no update_rows call.             *)
C15_NoOpSave ==
    [][SaveClicked /\ SameById(original_df, edited_df) =>
        /\ message' = "empty"
        /\ Calls(calls', "update_rows") = <<>>]_vars

SameIds(orig, edit) ==
    Len(orig) = Len(edit) /\ \A i \in 1..Len(orig) : HasId(edit, orig[i].id)

(* The cells (row id, column) in which the edited table differs from the    *)
(* original.                                                                *)
ChangedCells(orig, edit) ==
    {rc \in {orig[i].id : i \in 1..Len(orig)} \X CompareCols :
        RowWithId(edit, rc[1])[rc[2]] # RowWithId(orig, rc[1])[rc[2]]}

(* C16: a save of an edited table that differs from the original in exactly *)
(* one cell (r, c) builds one patch, for id r, with the keys id and c.      *)
C16_SingleCellDiff ==
    [][(/\ SaveClicked
        /\ SameIds(original_df, edited_df)
        /\ Cardinality(ChangedCells(original_df, edited_df)) = 1) =>
        LET rc == CHOOSE x \in ChangedCells(original_df, edited_df) : TRUE
            sent == Calls(calls', "update_rows")
        IN  /\ Len(sent) = 1
            /\ Len(sent[1].items) = 1
            /\ sent[1].items[1].id = rc[1]
            /\ DOMAIN sent[1].items[1] = {"id", rc[2]}]_vars

(* C18: load and forced refresh fetch each table once and leave two copies *)
(* with the same rows, no row of the working copy ticked; a later change of *)
(* the edited table changes neither the original nor the working copy in    *)
(* the session.                                                             *)
C18_LoadCopies ==
    /\ [](Refreshed(calls) =>
            /\ Calls(calls, "get_table_as_dataframe") = FetchCalls
            /\ original_df = editor_df
            /\ \A i \in 1..Len(editor_df) : ~editor_df[i]["_selected"])
    /\ [][edited_df' # edited_df /\ ~Refreshed(calls') =>
            UNCHANGED <<original_df, editor_df>>]_vars

C18_Witness ==
    /\ message = "refreshed" /\ Refreshed(calls)
    /\ editor_df # <<>> /\ original_df = editor_df
    /\ edited_df # editor_df

(* C19: between one load or forced refresh and the next, no interaction     *)
(* changes the original copy.                                               *)
C19_OriginalImmutable ==
    [][~Refreshed(calls') => original_df' = original_df]_vars

C19_Witness ==
    /\ message \in {"save_failed", "status_failed", "delete_failed"}
    /\ ~Refreshed(calls)
    /\ original_df # <<>>
    /\ edited_df # original_df
    /\ sort_cols # <<>>

(* The configuration carries an error or lacks a required setting.          *)
Defective(cfg) == cfg # CompleteConfig

(* C22: with an error in the configuration or a required setting missing,   *)
(* the load reports it and no run of the page, load, save, bulk update or   *)
(* deletion, makes a request to the row store.                              *)
C22_NoStoreCallWithoutConfig ==
    /\ [](Defective(config) =>
            /\ calls = <<>>
            /\ original_df = <<>> /\ editor_df = <<>>)
    /\ [][Defective(config) /\ calls' # calls => FALSE]_vars
    /\ [][Defective(config) /\ message' # "" => message' = "config_error"]_vars

C22_Witness ==
    /\ Defective(config) /\ store # <<>>
    /\ message = "config_error" /\ calls = <<>>

(* C23: a click on "Save Direct Edits" ends with one of three reports: no   *)
(* changes (and no call), save failed (update_rows called, the store as it  *)
(* was) or saved (update_rows called and the patches applied); a changed    *)
(* store is never reported as a failure.                                    *)
C23_ThreeSaveOutcomes ==
    [][SaveClicked =>
        LET sent == Calls(calls', "update_rows") IN
        /\ message' \in {"empty", "save_failed", "saved"}
        /\ message' = "empty" => sent = <<>> /\ store' = store
        /\ message' = "save_failed" => Len(sent) = 1 /\ store' = store
        /\ message' = "saved" =>
              Len(sent) = 1 /\ store' = StoreUpdate(store, sent[1].items)
        /\ store' # store => message' = "saved"]_vars

FailureReports == {"save_failed", "status_failed", "panel_failed", "delete_failed"}

(* C25: a run in which update_rows or delete_rows reported failure makes no *)
(* refresh and leaves both session frames, the edited table and the         *)
(* confirmation flag as they were; after a failed deletion the confirm      *)
(* button is still there.                                                   *)
C25_FailedWriteKeepsSession ==
    [][WriteCalled(calls') /\ message' \in FailureReports =>
        /\ ~Refreshed(calls')
        /\ UNCHANGED <<original_df, editor_df, edited_df, confirming_delete>>
        /\ message' = "delete_failed" =>
              /\ confirming_delete'
              /\ ConfirmShown(edited_df', confirming_delete')]_vars

C25_Witness ==
    /\ message = "delete_failed" /\ DeleteCalled(calls)
    /\ confirming_delete /\ ConfirmShown(edited_df, confirming_delete)
    /\ original_df # <<>>

(* What only a run of the save path shows, and what only a run of the bulk  *)
(* block shows.                                                             *)
SaveReports == {"saved", "save_failed", "ValueError", "KeyError", "empty"}
BulkReports == {"status_updated", "status_failed", "panel_updated", "panel_failed",
                "confirm_prompt", "cancelled", "deleted", "delete_failed"}

(* The cells (not the ticks) in which the edited table differs from the     *)
(* frame the editor was given.                                              *)
UnsavedEdits(df, by, edited) ==
    {ic \in (1..Len(edited)) \X DataCols :
        edited[ic[1]][ic[2]] # display_df(df, by)[ic[1]][ic[2]]}

(* C26: save runs only with no row ticked and the bulk actions only with a  *)
(* row ticked; a successful bulk action sends only its own patches and      *)
(* leaves no unsaved cell edit in the editor.                               *)
C26_SaveAndBulkExclusive ==
    /\ [][message' \in SaveReports => row_ids_to_modify(edited_df) = <<>>]_vars
    /\ [][message' \in BulkReports => row_ids_to_modify(edited_df) # <<>>]_vars
    /\ [][message' \in {"status_updated", "panel_updated", "deleted"} =>
            /\ \A n \in 1..Len(calls') :
                  calls'[n].op = "update_rows" =>
                     \A k \in 1..Len(calls'[n].items) :
                        /\ Cardinality(DOMAIN calls'[n].items[k]) = 2
                        /\ calls'[n].items[k].id \in Range(row_ids_to_modify(edited_df))
            /\ UnsavedEdits(editor_df', sort_cols', edited_df') = {}]_vars

----------------------------------------------------------------------------
(* Properties of a table fetch (SpecFetch).                                 *)

(* C8: a fetch in which a page request failed reports the failure to its    *)
(* caller and exposes no rows.                                              *)
C8_FetchFailureReported ==
    (fetch.done /\ fetch.raised) =>
        /\ fetch.result.exception # "none"
        /\ fetch.result.df = <<>>

(* Page n is the first whose `next` is null or whose results are empty.     *)
EndsAt(desc, n) ==
    /\ n \in 1..Len(desc.pages)
    /\ desc.pages[n].next = FALSE \/ desc.pages[n].n = 0
    /\ \A k \in 1..(n - 1) : desc.pages[k].next /\ desc.pages[k].n # 0

AllRequestsSucceeded(desc, requests) ==
    \A i \in 1..Len(requests) :
        requests[i] <= Len(desc.pages) /\ desc.pages[requests[i]].status = "ok"

(* C9: when every page request succeeds, the fetch returns the results of   *)
(* pages 1..n in order, n the first page that ends the table, each row      *)
(* once.                                                                    *)
C9_FetchConcatenates ==
    (fetch.done /\ AllRequestsSucceeded(responses, fetch.requests)) =>
        \E n \in 1..Len(responses.pages) :
            /\ EndsAt(responses, n)
            /\ fetch.requests = [k \in 1..n |-> k]
            /\ fetch.all_rows =
                 Flat([k \in 1..n |-> PageRows(k, responses.pages[k].n, responses.shape)])
            /\ fetch.result.exception = "none"
            /\ Ids(fetch.result.df) = Ids(fetch.all_rows)
            /\ Cardinality(StoreIds(fetch.result.df)) = Len(fetch.result.df)

C9_Witness ==
    /\ fetch.done /\ ~fetch.raised
    /\ Len(fetch.requests) = 3
    /\ Len(fetch.result.df) = 447

(* A cell that still holds a {value: ...} object, itself or in a list.     *)
Wrapped(x) ==
    \/ IsDictWithValue(x)
    \/ x[1] = "list" /\ \E k \in 1..Len(x[2]) : IsDictWithValue(x[2][k])

IsListOfWrappers(x) ==
    x[1] = "list" /\ \A k \in 1..Len(x[2]) : IsDictWithValue(x[2][k])

(* C21: in the frame a fetch returns, no cell holds a {value: ...} object:  *)
(* a store cell {value: v} is v, a list of such objects is the list of      *)
(* their v's, in every column.                                              *)
C21_CellsFlattened ==
    (fetch.done /\ ~fetch.raised) =>
        \A i \in 1..Len(fetch.result.df) : \A c \in DataCols :
            LET raw == fetch.all_rows[i][c]
                cell == fetch.result.df[i][c]
            IN  /\ ~Wrapped(cell)
                /\ IsDictWithValue(raw) => cell = raw[2]
                /\ IsListOfWrappers(raw) =>
                      cell = Lst([k \in 1..Len(raw[2]) |-> raw[2][k][2]])

(* Page n is the first at which the store ends the fetch: by an error (a    *)
(* page it does not have included), a null `next` or an empty result list.  *)
StopsAt(desc, n) ==
    LET Ends(k) == \/ k > Len(desc.pages)
                   \/ desc.pages[k].status # "ok"
                   \/ desc.pages[k].next = FALSE
                   \/ desc.pages[k].n = 0
    IN  Ends(n) /\ \A k \in 1..(n - 1) : ~Ends(k)

(* C24: a fetch ends after finitely many requests: the requests it made    *)
(* are those for pages 1, 2, ..., n in this order, each once, n the first   *)
(* page that ends the fetch, and none after it.                             *)
C24_FetchTerminates ==
    fetch.done =>
        \E n \in 1..(Len(responses.pages) + 1) :
            /\ StopsAt(responses, n)
            /\ fetch.requests = [k \in 1..n |-> k]

C24_Witness ==
    /\ fetch.done /\ ~fetch.raised
    /\ fetch.requests = <<1, 2, 3>>
    /\ responses.pages[3].n = 0 /\ responses.pages[3].next

----------------------------------------------------------------------------
(* Properties of delete_rows (SpecDelete).                                  *)
ExpectedBatch(ids, k) ==
    SubSeq(ids, (k - 1) * batch_size + 1, Min(k * batch_size, Len(ids)))

(* C10: the ids go out in consecutive batches of at most 200, in list       *)
(* order; a failing batch k ends the call with False, nothing is sent after *)
(* it and batches 1..k-1 stay deleted; True means every batch succeeded.    *)
C10_DeleteBatches ==
    (del_out.done /\ del_in.valid) =>
        LET ids == IdList(del_in.n)
            sent == IF del_in.fail_at = 0 THEN NumBatches(del_in.n) ELSE del_in.fail_at
            applied == IF del_in.fail_at = 0 THEN sent ELSE sent - 1
        IN  /\ del_out.requests = [k \in 1..sent |-> ExpectedBatch(ids, k)]
            /\ del_out.deleted = Range(Flat([k \in 1..applied |-> ExpectedBatch(ids, k)]))
            /\ del_out.result = IF del_in.fail_at = 0 THEN "True" ELSE "False"

----------------------------------------------------------------------------
(* Properties of "Save Direct Edits" (SpecSave).                            *)

(* C14: when the edited table's set of row ids differs from the original's, *)
(* save shows the comparison error and calls neither update_rows,           *)
(* create_rows nor delete_rows; the store is left as it is.                 *)
C14_AlignmentGate ==
    [][SaveClicked /\ Range(Ids(edited_df)) # Range(Ids(original_df)) =>
        /\ message' = "ValueError"
        /\ calls' = <<>>
        /\ store' = store]_vars

C14_Witness ==
    /\ message = "ValueError" /\ calls = <<>>
    /\ Len(edited_df) = Len(original_df)
    /\ Range(Ids(edited_df)) # Range(Ids(original_df))

(* C17: every patch that save passes to update_rows has the id of a row    *)
(* and at least one more key, and each of its other keys is a column that   *)
(* differs between the original and the edited row of that id.              *)
C17_NoIdOnlyPatch ==
    [][SaveSent =>
        \A n \in 1..Len(calls'[1].items) :
            LET p == calls'[1].items[n] IN
            /\ "id" \in DOMAIN p
            /\ HasId(original_df, p.id) /\ HasId(edited_df, p.id)
            /\ DOMAIN p # {"id"}
            /\ \A c \in DOMAIN p \ {"id"} :
                  RowWithId(original_df, p.id)[c] # RowWithId(edited_df, p.id)[c]]_vars

(* A save was sent for a table in which one row's only change is a cell     *)
(* that went from a value to missing, and another row's changes include a   *)
(* cell that went from missing to a value.                                  *)
C17_Witness ==
    /\ message = "save_failed"
    /\ Len(Calls(calls, "update_rows")) = 1
    /\ Len(original_df) = Len(edited_df)
    /\ \E i, j \in 1..Len(original_df) :
          /\ original_df[i].Panel # NULL /\ edited_df[i].Panel = NULL
          /\ original_df[i].Status = edited_df[i].Status
          /\ original_df[j].Panel = NULL /\ edited_df[j].Panel # NULL
          /\ \E n \in 1..Len(calls[1].items) : calls[1].items[n].id = original_df[i].id
          /\ \E n \in 1..Len(calls[1].items) : calls[1].items[n].id = original_df[j].id

(* C20: the ids of the patches of one save are strictly increasing along    *)
(* the item list given to update_rows.                                      *)
C20_AscendingIds ==
    [][SaveSent =>
        \A i, j \in 1..Len(calls'[1].items) :
            i < j => calls'[1].items[i].id < calls'[1].items[j].id]_vars

----------------------------------------------------------------------------
(* Properties of update_rows and create_rows (SpecWrite).                   *)

(* C11: whatever way the batch request of update_rows or create_rows fails, *)
(* with or without an HTTP response, the call returns None to its caller    *)
(* (it does not raise) and nothing of the batch is applied.                 *)
C11_WriteFailureIsValue ==
    (write_out.done /\ write_in.answer # "ok") =>
        /\ write_out.result = "None"
        /\ write_out.applied = 0

----------------------------------------------------------------------------
(* Properties of the enrichment scraper (SpecScrape).                       *)
Count(seq, x) == Cardinality({k \in 1..Len(seq) : seq[k] = x})

ItemsOf(payload, id) == SelectSeq(payload, LAMBDA item : item.id = id)

(* C27: in a run that scrapes, every row with an ASIN is scraped once in    *)
(* pass 1 and once more in pass 2 exactly if pass 1 gave no title; it has   *)
(* one item in the payload, with status Success, Success (on retry) or      *)
(* Scrape Failed according to the two passes; rows without ASIN have none;  *)
(* the whole payload goes out in one update_rows call.                      *)
C27_ScraperRetry ==
    (scr_out.done /\ scr_in.driver) =>
        /\ \A i \in 1..Len(scr_in.catalogue) :
              LET row == scr_in.catalogue[i]
                  first == scr_in.site[row.id][1]
                  second == scr_in.site[row.id][2]
                  items == ItemsOf(scr_out.payload, row.id)
              IN  IF row.asin = NULL
                  THEN /\ Count(scr_out.scrapes, <<row.id, 1>>) = 0
                       /\ Count(scr_out.scrapes, <<row.id, 2>>) = 0
                       /\ items = <<>>
                  ELSE /\ Count(scr_out.scrapes, <<row.id, 1>>) = 1
                       /\ Count(scr_out.scrapes, <<row.id, 2>>) =
                             IF first = "title" THEN 0 ELSE 1
                       /\ Len(items) = 1
                       /\ items[1].EnrichmentStatus = "Success" <=> first = "title"
                       /\ items[1].EnrichmentStatus = "Success (on retry)" <=>
                             (first # "title" /\ second = "title")
                       /\ items[1].EnrichmentStatus = "Scrape Failed" <=>
                             (first # "title" /\ second # "title")
        /\ Len(scr_out.update_calls) = IF scr_out.payload = <<>> THEN 0 ELSE 1
        /\ \A k \in 1..Len(scr_out.update_calls) :
              scr_out.update_calls[k].items = scr_out.payload

C27_Witness ==
    /\ scr_out.done /\ scr_in.driver
    /\ Len(scr_out.payload) = 3
    /\ \E i, j, k \in 1..3 :
          /\ ItemsOf(scr_out.payload, i)[1].EnrichmentStatus = "Success"
          /\ ItemsOf(scr_out.payload, j)[1].EnrichmentStatus = "Success (on retry)"
          /\ ItemsOf(scr_out.payload, k)[1].EnrichmentStatus = "Scrape Failed"
    /\ Len(scr_out.scrapes) = 5
    /\ Len(scr_out.update_calls) = 1

====
